---- MODULE Spec2Model ----
(***************************************************************************)
(* GeometryField of django.contrib.gis.db.models.fields: the conversion    *)
(* helpers between a geometry value and the lookup / save parameters.      *)
(*                                                                         *)
(* The state is the field instance (self), the SpatialBackend container,   *)
(* the Geometry objects the caller holds (they are mutable: get_geometry   *)
(* assigns geom.srid), and the last method call with its outcome.          *)
(***************************************************************************)
EXTENDS Integers, Sequences, FiniteSets, TLC

VARIABLES field, SpatialBackend, geoms, call, result

vars == <<field, SpatialBackend, geoms, call, result>>

----------------------------------------------------------------------------
(* Bounds *)

\* Geometry objects held by the caller.
NumGeoms == 1
\* Longest tuple passed as a lookup value: (geom, distance, option) is 3.
MaxTupleLen == 3
\* Distance objects D(ft=10000), D(ft=20000), ...
MaxDist == 1

----------------------------------------------------------------------------
(* Python values *)

PyNone == [kind |-> "None"]
Num(n) == [kind |-> "number", n |-> n]
Str(t) == [kind |-> "str", text |-> t]
\* A Geometry object is a reference; its srid lives in geoms (id 0: the
\* object a call has just constructed, whose srid lives in the result).
Geom(i) == [kind |-> "Geometry", id |-> i]
\* A Distance object holds its length in metres (the attribute m).
Dist(m) == [kind |-> "Distance", m |-> m]
\* A tuple or a list.
Tuple(items) == [kind |-> "tuple", items |-> items]

IsSequence(v) == v.kind = "tuple"

GeomIds == 1..NumGeoms

\* The srid a Geometry object can carry.
GeomSrids == {PyNone, Num(-1), Num(4326), Num(32140)}

Strings == {"POINT(0 0)", "SRID=32140;POINT(0 0)", "SRID=-1;POINT(0 0)", "spheroid"}

Distances == {Dist(3048 * k) : k \in 1..MaxDist}

Scalars ==
    {Geom(i) : i \in GeomIds} \cup {Str(t) : t \in Strings}
        \cup {PyNone, Num(5)} \cup Distances

\* What follows the geometry in a lookup tuple: a distance (a Distance, a
\* number, or something else), then an option, then further parameters.
Extras == {Num(5), Str("spheroid")} \cup Distances
Options == {Str("spheroid"), Num(5)}

TailsOfLen(n) ==
    {t \in [1..n -> Extras] :
        \A i \in 1..n : /\ i = 2 => t[i] \in Options
                        /\ i > 2 => t[i] = Num(5)}

Tails == UNION {TailsOfLen(n) : n \in 0..(MaxTupleLen - 1)}

Values ==
    Scalars \cup {Tuple(<<>>)} \cup {Tuple(<<h>> \o t) : h \in Scalars, t \in Tails}

LookupTypes == {"isnull", "contains", "relate", "dwithin", "distance_lte"}

----------------------------------------------------------------------------
(* Collaborators *)

\* get_srid_info(srid): (unit, unit_name, spheroid) of a row of the spatial
\* reference table; all None for srid -1.
get_srid_info(srid) ==
    CASE srid = 4326  -> [unit |-> "0.0174532925199433", unit_name |-> Str("degree"),
                          spheroid |-> Str("SPHEROID[\"WGS 84\",6378137,298.257223563]")]
      [] srid = 8307  -> [unit |-> "0.0174532925199433", unit_name |-> Str("Decimal Degree"),
                          spheroid |-> Str("SPHEROID[\"WGS 84\",6378137,298.257223563]")]
      [] srid = 32140 -> [unit |-> "1", unit_name |-> Str("metre"),
                          spheroid |-> Str("SPHEROID[\"GRS 1980\",6378137,298.257222101]")]
      [] srid = 2222  -> [unit |-> "0.3048", unit_name |-> Str("foot"),
                          spheroid |-> Str("SPHEROID[\"GRS 1980\",6378137,298.257222101]")]
      [] OTHER        -> [unit |-> "None", unit_name |-> PyNone, spheroid |-> PyNone]

FieldSrids == {4326, 8307, 32140, 2222, -1}

\* Distance.unit_attname(unit_name): the Distance attribute of a unit name;
\* raises for a name that is no length unit.
UnitNames == {Str("metre"), Str("foot")}
unit_attname(unit_name) == IF unit_name = Str("metre") THEN "m" ELSE "ft"

\* getattr(dist, attname): the length in that unit (one foot is 0.3048 m).
DistanceAttr(dist, attname) ==
    IF attname = "m" THEN dist.m ELSE (dist.m * 10000) \div 3048

\* SpatialBackend.Geometry(text): the srid of the geometry the text
\* describes, or GeometryException.
GeometryFromString(text) ==
    CASE text = "POINT(0 0)"            -> [ok |-> TRUE, srid |-> PyNone]
      [] text = "SRID=32140;POINT(0 0)" -> [ok |-> TRUE, srid |-> Num(32140)]
      [] text = "SRID=-1;POINT(0 0)"    -> [ok |-> TRUE, srid |-> Num(-1)]
      [] OTHER                          -> [ok |-> FALSE, srid |-> PyNone]

\* The SpatialBackend container of each spatial database.
Backends ==
    { [name |-> "postgis", postgis |-> TRUE,
       gis_terms |-> {"isnull", "contains", "relate", "dwithin", "distance_lte"},
       distance_functions |-> {"dwithin", "distance_lte"},
       limited_where |-> {"relate"}],
      [name |-> "oracle", postgis |-> FALSE,
       gis_terms |-> {"isnull", "contains", "relate", "dwithin", "distance_lte"},
       distance_functions |-> {"dwithin", "distance_lte"},
       limited_where |-> {"relate"}],
      [name |-> "mysql", postgis |-> FALSE,
       gis_terms |-> {"isnull", "contains"},
       distance_functions |-> {},
       limited_where |-> {}] }

\* gqn(value): the value quoted for SQL.
gqn(v) == [kind |-> "quoted", of |-> v]

\* SpatialBackend.Adaptor(geom): the geometry wrapped for the database driver.
Adaptor(g) == [kind |-> "Adaptor", geom |-> g]

\* self.get_placeholder(geom): the SQL placeholder of the backend's Field.
get_placeholder(self, g, srid) == [kind |-> "placeholder", geom |-> g, srid |-> srid]

RECURSIVE MapGqn(_)
MapGqn(s) == IF s = <<>> THEN <<>> ELSE <<gqn(Head(s))>> \o MapGqn(Tail(s))

----------------------------------------------------------------------------
(* GeometryField *)

geodetic_units == {Str("Decimal Degree"), Str("degree")}

\* GeometryField.__init__(srid)
NewField(srid) ==
    LET info == get_srid_info(srid)
    IN  [srid |-> Num(srid), unit |-> info.unit, unit_name |-> info.unit_name,
         spheroid |-> info.spheroid]

geodetic(self) == self.unit_name \in geodetic_units

\* No object: the `built` of a call that constructed no Geometry.
NoObject == [kind |-> "absent"]

\* The outcome of a method: what it returned or raised, the collaborators it
\* called (in order), the Geometry objects after it, and the srid of the
\* Geometry it constructed (Geom(0)), if any.
Raise(exc, calls, heap) ==
    [outcome |-> exc, ret |-> PyNone, calls |-> calls, geoms |-> heap, built |-> NoObject]
Return(v, calls, heap, built) ==
    [outcome |-> "return", ret |-> v, calls |-> calls, geoms |-> heap, built |-> built]
Raised(r) == r.outcome # "return"

\* dist_param with the conversion to the field's unit forgotten.
dist_param_metres(self, SB, dist, lookup_type) ==
    IF dist.kind = "Distance" THEN
        IF geodetic(self) /\ SB.postgis /\ lookup_type = "dwithin"
        THEN [outcome |-> "TypeError", ret |-> PyNone]
        ELSE [outcome |-> "return", ret |-> Num(dist.m)]
    ELSE [outcome |-> "return", ret |-> dist]

\* get_distance, lines 73-84: the distance parameter.
dist_param(self, SB, dist, lookup_type) ==
    IF dist.kind = "Distance" THEN
        IF geodetic(self) THEN
            IF SB.postgis /\ lookup_type = "dwithin"
            THEN [outcome |-> "TypeError", ret |-> PyNone]
            ELSE [outcome |-> "return", ret |-> Num(dist.m)]
        ELSE
            IF self.unit_name \in UnitNames
            THEN [outcome |-> "return",
                  ret |-> Num(DistanceAttr(dist, unit_attname(self.unit_name)))]
            ELSE [outcome |-> "Exception", ret |-> PyNone]
    ELSE [outcome |-> "return", ret |-> dist]

\* GeometryField.get_distance(dist_val, lookup_type); dist_val is a sequence.
get_distance(self, SB, heap, dist_val, lookup_type) ==
    IF Len(dist_val) \notin {1, 2} THEN
        \* `dist, option = dist_val` does not unpack.
        Raise("ValueError", <<>>, heap)
    ELSE
        LET dist   == dist_val[1]
            option == IF Len(dist_val) = 1 THEN PyNone ELSE dist_val[2]
            p      == dist_param(self, SB, dist, lookup_type)
        IN  IF p.outcome # "return" THEN Raise(p.outcome, <<>>, heap)
            ELSE IF /\ SB.postgis
                    /\ geodetic(self)
                    /\ lookup_type # "dwithin"
                    /\ option = Str("spheroid")
                 THEN Return(<<gqn(self.spheroid), p.ret>>, <<"gqn">>, heap, NoObject)
                 ELSE Return(<<p.ret>>, <<>>, heap, NoObject)

\* get_srid that defaults only a missing srid, not -1.
get_srid_none_only(self, geom) ==
    IF geom.srid = PyNone THEN self.srid ELSE geom.srid

\* GeometryField.get_srid(geom); geom is the object's state.
get_srid(self, geom) ==
    IF geom.srid = PyNone \/ (geom.srid = Num(-1) /\ self.srid # Num(-1))
    THEN self.srid
    ELSE geom.srid

\* lookup_geom that does not look into a tuple.
lookup_geom_whole(value) == value

\* get_geometry, lines 99-102: the candidate geometry of a lookup value
\* (of a tuple that has a first element).
lookup_geom(value) == IF IsSequence(value) THEN value.items[1] ELSE value

\* GeometryField.get_geometry(value)
get_geometry(self, heap, value) ==
    IF IsSequence(value) /\ value.items = <<>> THEN
        \* value[0] of an empty tuple
        Raise("IndexError", <<>>, heap)
    ELSE
        LET geom == lookup_geom(value)
        IN  IF geom.kind = "Geometry" THEN
                LET srid == get_srid(self, [srid |-> heap[geom.id]])
                IN  Return(geom, <<"get_srid", "geom.srid=">>,
                           [heap EXCEPT ![geom.id] = srid], NoObject)
            ELSE IF geom.kind = "str" THEN
                LET made == GeometryFromString(geom.text)
                IN  IF ~made.ok
                    THEN Raise("ValueError", <<"Geometry">>, heap)
                    ELSE Return(Geom(0), <<"Geometry", "get_srid", "geom.srid=">>,
                                heap, get_srid(self, [srid |-> made.srid]))
            ELSE Raise("TypeError", <<>>, heap)

\* The srid of the Geometry a get_geometry outcome returned.
SridOf(r) == IF r.ret.id = 0 THEN r.built ELSE r.geoms[r.ret.id]

\* is_isnull with the special case forgotten.
is_isnull_never(lookup_type) == FALSE

\* get_db_prep_lookup, line 146: the special case of the isnull lookup.
is_isnull(lookup_type) == lookup_type = "isnull"

\* GeometryField.get_db_prep_lookup(lookup_type, value)
get_db_prep_lookup(self, SB, heap, lookup_type, value) ==
    IF lookup_type \in SB.gis_terms THEN
        IF is_isnull(lookup_type) THEN
            Return(<<(<<>>), (<<>>)>>, <<>>, heap, NoObject)
        ELSE
            LET g == get_geometry(self, heap, value)
            IN  IF Raised(g) THEN
                    Raise(g.outcome, <<"get_geometry">> \o g.calls, heap)
                ELSE
                    LET where  == <<get_placeholder(self, g.ret, SridOf(g))>>
                        params == <<Adaptor(g.ret)>>
                        calls  == <<"get_geometry">> \o g.calls
                                      \o <<"get_placeholder", "Adaptor">>
                    IN  IF IsSequence(value) THEN
                            IF lookup_type \in SB.distance_functions THEN
                                LET d == get_distance(self, SB, g.geoms,
                                                      Tail(value.items), lookup_type)
                                IN  IF Raised(d)
                                    THEN Raise(d.outcome, calls \o <<"get_distance">>,
                                               g.geoms)
                                    ELSE Return(<<where \o d.ret, params>>,
                                                calls \o <<"get_distance">> \o d.calls,
                                                g.geoms, g.built)
                            ELSE IF lookup_type \in SB.limited_where THEN
                                Return(<<where, params>>, calls, g.geoms, g.built)
                            ELSE
                                Return(<<where \o MapGqn(Tail(value.items)), params>>,
                                       calls \o <<"gqn">>, g.geoms, g.built)
                        ELSE Return(<<where, params>>, calls, g.geoms, g.built)
    ELSE
        Raise("TypeError", <<>>, heap)

\* get_db_prep_save that prepares the value as a lookup value is prepared.
get_db_prep_save_as_lookup(self, heap, value) ==
    IF value = PyNone THEN Return(PyNone, <<>>, heap, NoObject)
    ELSE LET g == get_geometry(self, heap, value)
         IN  IF Raised(g) THEN Raise(g.outcome, <<"get_geometry">> \o g.calls, heap)
             ELSE Return(Adaptor(g.ret), <<"get_geometry">> \o g.calls \o <<"Adaptor">>,
                         g.geoms, g.built)

\* GeometryField.get_db_prep_save(value)
get_db_prep_save(self, heap, value) ==
    IF value.kind = "Geometry" THEN
        Return(Adaptor(value), <<"Adaptor">>, heap, NoObject)
    ELSE IF value = PyNone THEN
        Return(PyNone, <<>>, heap, NoObject)
    ELSE
        Raise("TypeError", <<>>, heap)

----------------------------------------------------------------------------
(* The state machine: the caller invokes one method of the field at a time  *)
(* and takes its outcome before the next call; the Geometry objects and    *)
(* the field live on across calls.                                         *)

\* No call in progress. A call records the method, its arguments, and the
\* field and the Geometry objects as they were when it was made.
NoCall ==
    [op |-> "none", lookup_type |-> "", value |-> PyNone, self |-> PyNone, pre |-> <<>>]

Init ==
    /\ field \in {NewField(srid) : srid \in FieldSrids}
    /\ SpatialBackend \in Backends
    /\ geoms \in [GeomIds -> GeomSrids]
    /\ call = NoCall
    /\ result = Raise("none", <<>>, geoms)

Idle == call.op = "none"

Finish(op, lookup_type, value, r) ==
    /\ call' = [op |-> op, lookup_type |-> lookup_type, value |-> value,
                self |-> field, pre |-> geoms]
    /\ result' = r
    /\ geoms' = r.geoms
    /\ UNCHANGED <<field, SpatialBackend>>

GetDistance ==
    /\ Idle
    /\ \E dist_val \in Tails, lookup_type \in LookupTypes :
        Finish("get_distance", lookup_type, Tuple(dist_val),
               get_distance(field, SpatialBackend, geoms, dist_val, lookup_type))

GetSrid ==
    /\ Idle
    /\ \E i \in GeomIds :
        Finish("get_srid", "", Geom(i),
               Return(get_srid(field, [srid |-> geoms[i]]), <<>>, geoms, NoObject))

GetGeometry ==
    /\ Idle
    /\ \E value \in Values :
        Finish("get_geometry", "", value, get_geometry(field, geoms, value))

GetDbPrepLookup ==
    /\ Idle
    /\ \E lookup_type \in LookupTypes, value \in Values :
        Finish("get_db_prep_lookup", lookup_type, value,
               get_db_prep_lookup(field, SpatialBackend, geoms, lookup_type, value))

GetDbPrepSave ==
    /\ Idle
    /\ \E value \in Values :
        Finish("get_db_prep_save", "", value, get_db_prep_save(field, geoms, value))

\* The caller takes the outcome of the call.
TakeResult ==
    /\ ~Idle
    /\ call' = NoCall
    /\ result' = Raise("none", <<>>, geoms)
    /\ UNCHANGED <<field, SpatialBackend, geoms>>

Next ==
    \/ TakeResult
    \/ GetDistance
    \/ GetSrid
    \/ GetGeometry
    \/ GetDbPrepLookup
    \/ GetDbPrepSave

Spec == Init /\ [][Next]_vars

----------------------------------------------------------------------------
(* Properties *)

InSeq(x, s) == \E i \in 1..Len(s) : s[i] = x

\* The first argument of the last get_distance call, when there is one.
DistArg == call.value.items[1]

\* A get_distance call on a Distance object has returned.
DistanceCallReturned ==
    /\ call.op = "get_distance"
    /\ result.outcome = "return"
    /\ DistArg.kind = "Distance"

\* The distance element of the list get_distance returned: its last element.
DistanceElement == result.ret[Len(result.ret)]

\* A Distance in the unit named by the field's _unit_name. Distance measures
\* lengths: an angular unit (degree) names none of its attributes, and no
\* number of metres is that Distance in degrees.
NotALength == [kind |-> "not a length"]
InFieldUnit(self, dist) ==
    IF self.unit_name \in UnitNames
    THEN Num(DistanceAttr(dist, unit_attname(self.unit_name)))
    ELSE NotALength

C1_WitnessProjected ==
    /\ DistanceCallReturned
    /\ field.unit_name = Str("foot")
    /\ DistArg = Dist(3048)
    /\ result.ret = <<Num(10000)>>

\* The srid the Geometry passed to the last get_srid call carried.
SridArg == call.pre[call.value.id]

\* C2: get_srid(geom) returns the field's SRID when geom.srid is None, or is
\* -1 while the field's SRID is not -1, and geom.srid in every other case; a
\* real SRID (neither None nor -1) is never overridden; the geometry and the
\* field are as they were.
C2_GetSrid ==
    call.op = "get_srid" =>
        LET defaulted == \/ SridArg = PyNone
                         \/ (SridArg = Num(-1) /\ call.self.srid # Num(-1))
        IN  /\ result.outcome = "return"
            /\ defaulted => result.ret = call.self.srid
            /\ ~defaulted => result.ret = SridArg
            /\ SridArg \notin {PyNone, Num(-1)} => result.ret = SridArg
            /\ geoms = call.pre
            /\ field = call.self

\* get_srid has kept a real SRID that differs from the field's.
C2_Witness ==
    /\ call.op = "get_srid"
    /\ SridArg = Num(32140)
    /\ field.srid = Num(4326)
    /\ result.ret = Num(32140)

\* get_srid has defaulted an SRID of -1 to the field's.
C2_WitnessDefaulted ==
    /\ call.op = "get_srid"
    /\ SridArg = Num(-1)
    /\ field.srid = Num(4326)
    /\ result.ret = Num(4326)

\* C3: get_db_prep_lookup raises TypeError for a lookup type that is not in
\* gis_terms, and returns ([], []) for isnull when it is in gis_terms; in both
\* cases for every value, calling no collaborator and touching no geometry.
C3_InvalidAndIsNull ==
    call.op = "get_db_prep_lookup" =>
        /\ call.lookup_type \notin SpatialBackend.gis_terms =>
               /\ result.outcome = "TypeError"
               /\ result.calls = <<>>
               /\ geoms = call.pre
        /\ (call.lookup_type = "isnull" /\ "isnull" \in SpatialBackend.gis_terms) =>
               /\ result.outcome = "return"
               /\ result.ret = << <<>>, <<>> >>
               /\ result.calls = <<>>
               /\ geoms = call.pre

\* An isnull lookup has returned for a value that is no geometry and no
\* string.
C3_Witness ==
    /\ call.op = "get_db_prep_lookup"
    /\ call.lookup_type = "isnull"
    /\ call.value = Num(5)
    /\ result.outcome = "return"

\* A lookup the backend does not know has been refused for a Geometry.
C3_WitnessInvalid ==
    /\ call.op = "get_db_prep_lookup"
    /\ call.lookup_type = "dwithin"
    /\ SpatialBackend.name = "mysql"
    /\ call.value = Geom(1)
    /\ result.outcome = "TypeError"

\* C4: get_db_prep_save wraps a Geometry in the Adaptor, returns None for
\* None, and raises TypeError for any other value, a string included; no
\* geometry's SRID changes.
C4_SaveOutcomes ==
    call.op = "get_db_prep_save" =>
        /\ call.value.kind = "Geometry" =>
               result.outcome = "return" /\ result.ret = Adaptor(call.value)
        /\ call.value = PyNone =>
               result.outcome = "return" /\ result.ret = PyNone
        /\ (call.value.kind # "Geometry" /\ call.value # PyNone) =>
               result.outcome = "TypeError"
        /\ geoms = call.pre

\* A string that get_geometry accepts has been refused on the save path.
C4_Witness ==
    /\ call.op = "get_db_prep_save"
    /\ call.value = Str("POINT(0 0)")
    /\ result.outcome = "TypeError"

\* A Geometry without SRID has been wrapped, its SRID still missing.
C4_WitnessGeometry ==
    /\ call.op = "get_db_prep_save"
    /\ call.value = Geom(1)
    /\ call.pre[1] = PyNone
    /\ result.ret = Adaptor(Geom(1))
    /\ geoms[1] = PyNone

\* The candidate geometry of the last call's value.
Candidate == IF IsSequence(call.value) THEN call.value.items[1] ELSE call.value

\* C5: get_geometry takes value[0] of a tuple or list and the value itself
\* otherwise; a Geometry is returned as is, a string goes to the Geometry
\* constructor and its GeometryException becomes ValueError, any other type
\* raises TypeError; only the first two return, and no error assigns an SRID.
C5_GetGeometry ==
    call.op = "get_geometry" =>
        /\ call.value # Tuple(<<>>) =>
               /\ Candidate.kind = "Geometry" =>
                      result.outcome = "return" /\ result.ret = Candidate
               /\ Candidate.kind = "str" =>
                      /\ result.calls # <<>> /\ result.calls[1] = "Geometry"
                      /\ IF GeometryFromString(Candidate.text).ok
                         THEN result.outcome = "return" /\ result.ret = Geom(0)
                         ELSE result.outcome = "ValueError"
               /\ Candidate.kind \notin {"Geometry", "str"} =>
                      result.outcome = "TypeError"
               /\ result.outcome = "return" => Candidate.kind \in {"Geometry", "str"}
        /\ Raised(result) =>
               /\ ~InSeq("geom.srid=", result.calls)
               /\ geoms = call.pre
               /\ result.built = NoObject

\* get_geometry has taken the first element of a tuple, a string the
\* constructor refuses, and has raised ValueError.
C5_Witness ==
    /\ call.op = "get_geometry"
    /\ IsSequence(call.value)
    /\ Len(call.value.items) > 1
    /\ Candidate = Str("spheroid")
    /\ result.outcome = "ValueError"

\* get_geometry has returned the Geometry of a tuple, its SRID defaulted.
C5_WitnessGeometry ==
    /\ call.op = "get_geometry"
    /\ IsSequence(call.value)
    /\ call.value # Tuple(<<>>)
    /\ Candidate = Geom(1)
    /\ call.pre[1] = PyNone
    /\ result.ret = Geom(1)
    /\ geoms[1] = field.srid

\* get_geometry has raised TypeError for None.
C5_WitnessTypeError ==
    /\ call.op = "get_geometry"
    /\ call.value = PyNone
    /\ result.outcome = "TypeError"

====
